---- MODULE Spec2Model ----
(***************************************************************************)
(* BinBuilder (builder.ts): configuration, build(), the concurrent         *)
(* download fan-out, the command pipeline and the remapping into the       *)
(* target directory, over a small model of the file system.                *)
(***************************************************************************)
EXTENDS Integers, Sequences, FiniteSets, TLC

VARIABLES
    sources,      \* BinBuilder.sources: Seq of [os, arch, url]
    destination,  \* BinBuilder.destination ("" until dest(path) is called)
    downloaded,   \* BinBuilder.downloaded: Seq of urls
    cmds,         \* BinBuilder.cmds: Seq of command names
    fileRemaps,   \* BinBuilder.fileRemaps: Seq of [src, hasDest, dest]
    threw,        \* the last call on the builder threw synchronously
    tgtFs,        \* the target directory "out": set of [p, c], p relative to it
    bdExists,     \* the temporary build directory exists at its temporary path
    bdEntries,    \* the entries of the temporary build directory
    buildPromise, \* the promise build() returned: "none", "fulfilled", "rejected"
    buildError,   \* the error build() rejected with
    pcTask,       \* where the task given to tempDirectoryTask is
    taskError,    \* the error the task threw (kind "none" while it has not)
    dl,           \* per source index: "idle", "running", "extracted", "pushed", "failed"
    dlOwner,      \* for each element of downloaded, the source index that pushed it
    joinErr,      \* the first rejection Promise.all saw
    cmdIdx,       \* index of the command the for loop is at
    running,      \* set of command indices whose process is running
    started,      \* command indices in the order their process was started
    remapIdx,     \* index of the remap entry the for loop is at
    renameLog,    \* renames performed into the target: Seq of [src, dst, parentOk, ok]
    bdAtCmdEnd,   \* entries of the build directory when the command loop ended
    srcs,         \* download(): the result of getSrcs(), as indices into sources
    exited,       \* exit codes of the commands, in the order the processes exited
    fulfilledDl,  \* source indices whose downloadAndExtract promise fulfilled
    dUrl,         \* download(url, dest): the url argument ("" before the call)
    dPc,          \* download(): "idle", "fetch", "copy", "pipe", "done"
    dResp,        \* the response fetch(url) resolved with
    dWs,          \* the write stream on dest: "none", "created", "open", "closed"
    dDest,        \* the file at dest: "absent", "empty", "partial", "complete"
    dErr,         \* the error download() rejected with
    dHttp,        \* number of HTTP GETs issued
    dCopies,      \* number of local copies made
    dUnlink,      \* fs.unlinkSync(dest) in the catch: "none", "ok", "failed"
    sPath,        \* stripDirs(dir, level): the dir argument
    sLevel,       \* stripDirs(dir, level): the level argument
    sOut,         \* what stripDirs returned
    sPc,          \* stripDirs: "idle", "call", "done"
    zDest,        \* extractZip(filepath, dest, strip): the dest argument
    zCwd,         \* the working directory of the process, as components from "/"
    zStrip,       \* the strip argument (-1 stands for undefined)
    zArch,        \* the entries of the archive: set of [p, c], p relative to its root
    zFs,          \* the file system: set of [p, c], p the components from "/"
    zPc,          \* extractZip: "idle", "unzip", "walk", "strip", "done"
    zLeaves,      \* what walkDir(dest, strip+1) returned
    zListed,      \* the directories walkDir called readdir on
    zTodo,        \* leaves the for loop has not reached yet
    zMoves,       \* renames attempted: set of [from, to, ok], absolute components
    zErr,         \* the error extractZip rejected with
    xPc,          \* downloadAndExtract: "idle", "download", "detect", "extract",
                  \* "cleanup", "settled"
    xMime,        \* what getType(temp) resolved with ("" before it did)
    xErr,         \* the error downloadAndExtract rejected with
    xExtracts     \* number of calls of extract(temp, dest, format, strip)

vars == <<sources, destination, downloaded, cmds, fileRemaps, threw, tgtFs,
          bdExists, bdEntries, buildPromise, buildError, pcTask, taskError, dl,
          dlOwner, joinErr, cmdIdx, running, started, remapIdx, renameLog,
          bdAtCmdEnd, srcs, exited, fulfilledDl,
          dUrl, dPc, dResp, dWs, dDest, dErr, dHttp, dCopies, dUnlink,
          sPath, sLevel, sOut, sPc,
          zDest, zCwd, zStrip, zArch, zFs, zPc, zLeaves, zListed, zTodo, zMoves,
          zErr, xPc, xMime, xErr, xExtracts>>

builderVars == <<sources, destination, downloaded, cmds, fileRemaps, threw, tgtFs,
                 bdExists, bdEntries, buildPromise, buildError, pcTask, taskError,
                 dl, dlOwner, joinErr, cmdIdx, running, started, remapIdx,
                 renameLog, bdAtCmdEnd, srcs, exited, fulfilledDl>>

dVars == <<dUrl, dPc, dResp, dWs, dDest, dErr, dHttp, dCopies, dUnlink>>
sVars == <<sPath, sLevel, sOut, sPc>>
zVars == <<zDest, zCwd, zStrip, zArch, zFs, zPc, zLeaves, zListed, zTodo, zMoves,
           zErr>>
xVars == <<xPc, xMime, xErr, xExtracts>>

\* what an operation of the builder, and one of download(), leaves alone
notBuilder == <<dVars, sVars, zVars, xVars>>
notDl == <<builderVars, sVars, zVars, xVars>>

cfgVars == <<sources, destination, cmds, fileRemaps, threw>>
taskVars == <<pcTask, taskError, dl, dlOwner, joinErr, cmdIdx, running, started,
              remapIdx, renameLog, bdAtCmdEnd, srcs, exited, fulfilledDl>>

----------------------------------------------------------------------------
(* Bounds and input sets *)

MaxSources == 2
MaxCmds == 2

HostOS == "linux"
HostArch == "x64"

\* the arguments src() is called with
SourceInputs ==
    { [os |-> "linux",  arch |-> "x64",   url |-> "u1"],
      [os |-> "linux",  arch |-> "x64",   url |-> "u2"],
      [os |-> "darwin", arch |-> "x64",   url |-> "u1"],
      [os |-> "linux",  arch |-> "arm64", url |-> "u2"] }

CmdNames == {"A", "B"}
ExitCodes == {0, 1}

SeqsUpTo(S, n) == UNION { [1..k -> S] : k \in 0..n }

CmdLists == SeqsUpTo(CmdNames, MaxCmds)

\* a Remap: src is a path relative to the build directory; dest is optional
\* (hasDest = FALSE is `undefined`), and may be the empty string (dest = <<>>)
R(src, hasDest, dest) == [src |-> src, hasDest |-> hasDest, dest |-> dest]

RemapLists ==
    { <<>>,
      << R(<<"a">>, FALSE, <<>>) >>,
      << R(<<"a">>, TRUE, <<"d", "x">>) >>,
      << R(<<"a">>, TRUE, <<>>) >>,
      << R(<<"a">>, FALSE, <<>>), R(<<"b">>, TRUE, <<"d", "x">>) >>,
      << R(<<"b">>, TRUE, <<"d", "x">>), R(<<"a">>, FALSE, <<>>) >>,
      << R(<<"a">>, TRUE, <<"d", "x">>), R(<<"b">>, TRUE, <<"d", "x">>) >> }

\* what the archive behind a url holds at its root after extraction
ArchiveOf(url) == IF url = "u1" THEN {<<"a">>} ELSE {<<"b">>}

\* paths dest() is called with: "out" is the target, "afile" is a regular file
DestPaths == {"out", "afile"}

NoErr == [kind |-> "none", who |-> <<>>, code |-> 0]
Err(kind, who, code) == [kind |-> kind, who |-> who, code |-> code]

----------------------------------------------------------------------------
(* File system *)

Node(p, c) == [p |-> p, c |-> c]

Exists(fs, p) == \E n \in fs : n.p = p
IsDir(fs, p) == Node(p, "dir") \in fs
Children(fs, p) == { n \in fs : Len(n.p) = Len(p) + 1 /\ SubSeq(n.p, 1, Len(p)) = p }

Dirname(p) == IF p = <<>> THEN <<>> ELSE SubSeq(p, 1, Len(p) - 1)

Prefixes(p) == { SubSeq(p, 1, k) : k \in 0..Len(p) }

\* fs.mkdir(p, {recursive: true}): fails when a component is a regular file
MkdirOk(fs, p) == \A q \in Prefixes(p) : Exists(fs, q) => IsDir(fs, q)
MkdirP(fs, p) ==
    IF MkdirOk(fs, p)
    THEN fs \cup { Node(q, "dir") : q \in Prefixes(p) }
    ELSE fs

\* the state of the path a name stands for, as fs.existsSync / fs.statSync see it
PathExists(path) ==
    CASE path = "out" -> Exists(tgtFs, <<>>)
      [] path = "afile" -> TRUE
      [] OTHER -> FALSE
PathIsDirectory(path) ==
    CASE path = "out" -> IsDir(tgtFs, <<>>)
      [] OTHER -> FALSE

----------------------------------------------------------------------------
(* Configuration *)

NoResp == [status |-> 0, body |-> FALSE]

DlIdle ==
    /\ dUrl = ""
    /\ dPc = "idle"
    /\ dResp = NoResp
    /\ dWs = "none"
    /\ dDest = "absent"
    /\ dErr = NoErr
    /\ dHttp = 0
    /\ dCopies = 0
    /\ dUnlink = "none"

BuilderNew(fs) ==
    /\ sources = <<>>
    /\ destination = ""
    /\ downloaded = <<>>
    /\ cmds = <<>>
    /\ fileRemaps = <<>>
    /\ threw = FALSE
    /\ tgtFs = fs
    /\ bdExists = FALSE
    /\ bdEntries = {}
    /\ buildPromise = "none"
    /\ buildError = NoErr
    /\ pcTask = "none"
    /\ taskError = NoErr
    /\ dl = <<>>
    /\ dlOwner = <<>>
    /\ joinErr = NoErr
    /\ cmdIdx = 0
    /\ running = {}
    /\ started = <<>>
    /\ remapIdx = 0
    /\ renameLog = <<>>
    /\ bdAtCmdEnd = {}
    /\ srcs = <<>>
    /\ exited = <<>>
    /\ fulfilledDl = {}

\* a path string as Node's path module sees it: rooted at "/" or not, and its
\* components; "." is the relative path with no component
PathRec(abs, parts) == [abs |-> abs, parts |-> parts]

StripIdle ==
    /\ sPath = PathRec(FALSE, <<>>)
    /\ sLevel = 0
    /\ sOut = PathRec(FALSE, <<>>)
    /\ sPc = "idle"

ZipIdle ==
    /\ zDest = PathRec(FALSE, <<>>)
    /\ zCwd = <<>>
    /\ zStrip = 0
    /\ zArch = {}
    /\ zFs = {}
    /\ zPc = "idle"
    /\ zLeaves = {}
    /\ zListed = {}
    /\ zTodo = {}
    /\ zMoves = {}
    /\ zErr = NoErr

DaeIdle ==
    /\ xPc = "idle"
    /\ xMime = ""
    /\ xErr = NoErr
    /\ xExtracts = 0

\* a new BinBuilder; the target path is absent, an empty directory or a
\* directory that holds a file
Init ==
    /\ \E fs \in { {}, {Node(<<>>, "dir")},
                   {Node(<<>>, "dir"), Node(<<"old">>, "old")} } : BuilderNew(fs)
    /\ DlIdle
    /\ StripIdle
    /\ ZipIdle
    /\ DaeIdle

Configuring == buildPromise = "none"

\* src(url, os, arch)
Src(s) ==
    /\ UNCHANGED notBuilder
    /\ Configuring
    /\ threw' = FALSE
    /\ Len(sources) < MaxSources
    /\ sources' = Append(sources, s)
    /\ UNCHANGED <<destination, downloaded, cmds, fileRemaps, tgtFs,
                   bdExists, bdEntries, buildPromise, buildError>>
    /\ UNCHANGED taskVars

\* dest(path)
DestRejectsNothing(path) == FALSE
DestRejects(path) == PathExists(path) /\ ~PathIsDirectory(path)

Dest(path) ==
    /\ UNCHANGED notBuilder
    /\ Configuring
    /\ IF DestRejects(path)
       THEN /\ threw' = TRUE
            /\ UNCHANGED destination
       ELSE /\ threw' = FALSE
            /\ destination' = path
    /\ UNCHANGED <<sources, downloaded, cmds, fileRemaps, tgtFs,
                   bdExists, bdEntries, buildPromise, buildError>>
    /\ UNCHANGED taskVars

\* commands(cmds)
Commands(cs) ==
    /\ UNCHANGED notBuilder
    /\ Configuring
    /\ threw' = FALSE
    /\ cmds' = cs
    /\ UNCHANGED <<sources, destination, downloaded, fileRemaps, tgtFs,
                   bdExists, bdEntries, buildPromise, buildError>>
    /\ UNCHANGED taskVars

\* remaps(remaps)
Remaps(rs) ==
    /\ UNCHANGED notBuilder
    /\ Configuring
    /\ threw' = FALSE
    /\ fileRemaps' = rs
    /\ UNCHANGED <<sources, destination, downloaded, cmds, tgtFs,
                   bdExists, bdEntries, buildPromise, buildError>>
    /\ UNCHANGED taskVars

----------------------------------------------------------------------------
(* build() *)

\* a filter that compares the platform only
RECURSIVE FilterIdxOsOnly(_, _)
FilterIdxOsOnly(ss, i) ==
    IF i > Len(ss) THEN <<>>
    ELSE IF ss[i].os = HostOS
         THEN <<i>> \o FilterIdxOsOnly(ss, i + 1)
         ELSE FilterIdxOsOnly(ss, i + 1)

\* getSrcs(): the indices of sources, in order, that the filter keeps
RECURSIVE FilterIdx(_, _)
FilterIdx(ss, i) ==
    IF i > Len(ss) THEN <<>>
    ELSE IF ss[i].os = HostOS /\ ss[i].arch = HostArch
         THEN <<i>> \o FilterIdx(ss, i + 1)
         ELSE FilterIdx(ss, i + 1)

getSrcs == FilterIdx(sources, 1)

Range(f) == { f[i] : i \in DOMAIN f }

osArchPair == <<HostOS, HostArch>>

\* ensureExist(): exists(dest) or createDir(dest); mkdirSync("") throws ENOENT
ensureExistOk == destination # ""
ensureExistFs == IF Exists(tgtFs, <<>>) THEN tgtFs ELSE MkdirP(tgtFs, <<>>)

\* build(): await ensureExist(); tempDirectoryTask(task). The promise that
\* tempDirectoryTask returns is neither awaited nor returned, so build() fulfils
\* as soon as the task has been handed over.
Build ==
    /\ UNCHANGED notBuilder
    /\ UNCHANGED <<srcs, exited, fulfilledDl>>
    /\ Configuring
    /\ IF ensureExistOk
       THEN /\ tgtFs' = ensureExistFs
            /\ pcTask' = "mktemp"
            /\ buildPromise' = "fulfilled"
            /\ buildError' = NoErr
       ELSE /\ buildPromise' = "rejected"
            /\ buildError' = Err("fs", <<destination>>, 0)
            /\ UNCHANGED <<tgtFs, pcTask>>
    /\ UNCHANGED <<bdExists, bdEntries, downloaded>>
    /\ threw' = FALSE
    /\ UNCHANGED <<sources, destination, cmds, fileRemaps>>
    /\ UNCHANGED <<taskError, dl, dlOwner, joinErr, cmdIdx, running, started,
                   remapIdx, renameLog, bdAtCmdEnd>>

\* tempDirectoryTask: the temporary directory is created and the task is called
TempDirCreate ==
    /\ UNCHANGED notBuilder
    /\ UNCHANGED <<srcs, exited, fulfilledDl>>
    /\ pcTask = "mktemp"
    /\ bdExists' = TRUE
    /\ bdEntries' = {}
    /\ pcTask' = "download"
    /\ UNCHANGED <<tgtFs, buildPromise, buildError, downloaded>>
    /\ UNCHANGED cfgVars
    /\ UNCHANGED <<taskError, dl, dlOwner, joinErr, cmdIdx, running, started,
                   remapIdx, renameLog, bdAtCmdEnd>>

\* download(dest): no source for the host throws; otherwise every matching
\* source's downloadAndExtract is started (srcs.map) and Promise.all is awaited
DownloadStart ==
    /\ UNCHANGED notBuilder
    /\ UNCHANGED <<exited, fulfilledDl>>
    /\ pcTask = "download"
    /\ IF Len(getSrcs) < 1
       THEN /\ taskError' = Err("nobinary", osArchPair, 0)
            /\ pcTask' = "cleanup"
            /\ UNCHANGED dl
       ELSE /\ dl' = [i \in 1..Len(sources) |->
                        IF i \in Range(getSrcs) THEN "running" ELSE "idle"]
            /\ pcTask' = "join"
            /\ UNCHANGED taskError
    /\ srcs' = getSrcs
    /\ UNCHANGED <<tgtFs, bdExists, bdEntries, buildPromise, buildError, downloaded>>
    /\ UNCHANGED cfgVars
    /\ UNCHANGED <<dlOwner, joinErr, cmdIdx, running, started, remapIdx,
                   renameLog, bdAtCmdEnd>>

\* downloadAndExtract(src.url, dest, 1) fulfils: the archive is in the directory.
\* When the directory has been removed meanwhile the decoder either fails
\* (DlFail) or makes the directory again (the zip decoder creates its `dir`).
DlExtract(i) ==
    /\ UNCHANGED notBuilder
    /\ UNCHANGED <<srcs, exited>>
    /\ i \in DOMAIN dl
    /\ dl[i] = "running"
    /\ bdExists' = TRUE
    /\ bdEntries' = bdEntries \cup ArchiveOf(sources[i].url)
    /\ dl' = [dl EXCEPT ![i] = "extracted"]
    /\ fulfilledDl' = fulfilledDl \cup {i}
    /\ UNCHANGED <<tgtFs, buildPromise, buildError, downloaded>>
    /\ UNCHANGED cfgVars
    /\ UNCHANGED <<pcTask, taskError, dlOwner, joinErr, cmdIdx, running, started,
                   remapIdx, renameLog, bdAtCmdEnd>>

\* downloadAndExtract rejects (fetch, type detection or extraction failed);
\* Promise.all keeps the first rejection
DlFail(i) ==
    /\ UNCHANGED notBuilder
    /\ UNCHANGED <<srcs, exited, fulfilledDl>>
    /\ i \in DOMAIN dl
    /\ dl[i] = "running"
    /\ dl' = [dl EXCEPT ![i] = "failed"]
    /\ joinErr' = IF joinErr = NoErr THEN Err("download", <<sources[i].url>>, i)
                  ELSE joinErr
    /\ UNCHANGED <<tgtFs, bdExists, bdEntries, buildPromise, buildError, downloaded>>
    /\ UNCHANGED cfgVars
    /\ UNCHANGED <<pcTask, taskError, dlOwner, cmdIdx, running, started,
                   remapIdx, renameLog, bdAtCmdEnd>>

\* the push not waiting for downloadAndExtract to fulfil
NotAwaited(i) == dl[i] \in {"running", "extracted"}

\* `await downloadAndExtract(...)`: the continuation runs once it has fulfilled
Awaited(i) == dl[i] = "extracted"

\* the continuation after `await downloadAndExtract`: this.downloaded.push(url)
PushUrl(i) == Append(downloaded, sources[i].url)

DlPush(i) ==
    /\ UNCHANGED notBuilder
    /\ UNCHANGED <<srcs, exited, fulfilledDl>>
    /\ i \in DOMAIN dl
    /\ Awaited(i)
    /\ downloaded' = PushUrl(i)
    /\ dlOwner' = Append(dlOwner, i)
    /\ dl' = [dl EXCEPT ![i] = "pushed"]
    /\ UNCHANGED <<tgtFs, bdExists, bdEntries, buildPromise, buildError>>
    /\ UNCHANGED cfgVars
    /\ UNCHANGED <<pcTask, taskError, joinErr, cmdIdx, running, started,
                   remapIdx, renameLog, bdAtCmdEnd>>

\* a join that fulfils with the first element promise (Promise.any / race)
JoinReadyAny == \E i \in Range(srcs) : dl[i] = "pushed"

\* Promise.all fulfils when every element promise has fulfilled
JoinReady == \A i \in Range(srcs) : dl[i] = "pushed"

JoinResolve ==
    /\ UNCHANGED notBuilder
    /\ UNCHANGED <<srcs, exited, fulfilledDl>>
    /\ pcTask = "join"
    /\ joinErr = NoErr
    /\ JoinReady
    /\ IF Len(cmds) = 0
       THEN /\ pcTask' = "remap"
            /\ bdAtCmdEnd' = bdEntries
            /\ remapIdx' = 1
            /\ UNCHANGED cmdIdx
       ELSE /\ pcTask' = "commands"
            /\ cmdIdx' = 1
            /\ UNCHANGED <<bdAtCmdEnd, remapIdx>>
    /\ UNCHANGED <<tgtFs, bdExists, bdEntries, buildPromise, buildError, downloaded>>
    /\ UNCHANGED cfgVars
    /\ UNCHANGED <<taskError, dl, dlOwner, joinErr, running, started, renameLog>>

\* Promise.all rejects with the first rejection; the task throws it
JoinReject ==
    /\ UNCHANGED notBuilder
    /\ UNCHANGED <<srcs, exited, fulfilledDl>>
    /\ pcTask = "join"
    /\ joinErr # NoErr
    /\ taskError' = joinErr
    /\ pcTask' = "cleanup"
    /\ UNCHANGED <<tgtFs, bdExists, bdEntries, buildPromise, buildError, downloaded>>
    /\ UNCHANGED cfgVars
    /\ UNCHANGED <<dl, dlOwner, joinErr, cmdIdx, running, started, remapIdx,
                   renameLog, bdAtCmdEnd>>

----------------------------------------------------------------------------
(* The command loop *)

\* the check of the exit code left out: the loop goes on after a failure
CmdNeverFailed(code) == FALSE

\* if(res.exitCode != 0) throw
CmdFailed(code) == code # 0

\* execa(cmd.cmd, cmd.args, {cwd: buildDir}) is called
CmdStart ==
    /\ UNCHANGED notBuilder
    /\ UNCHANGED <<srcs, exited, fulfilledDl>>
    /\ pcTask = "commands"
    /\ running = {}
    /\ cmdIdx <= Len(cmds)
    /\ running' = {cmdIdx}
    /\ started' = Append(started, cmdIdx)
    /\ UNCHANGED <<tgtFs, bdExists, bdEntries, buildPromise, buildError, downloaded>>
    /\ UNCHANGED cfgVars
    /\ UNCHANGED <<pcTask, taskError, dl, dlOwner, joinErr, cmdIdx, remapIdx,
                   renameLog, bdAtCmdEnd>>

\* the awaited process exits with `code`
CmdExit(code) ==
    /\ UNCHANGED notBuilder
    /\ UNCHANGED <<srcs, fulfilledDl>>
    /\ pcTask = "commands"
    /\ running = {cmdIdx}
    /\ running' = {}
    /\ exited' = Append(exited, code)
    /\ IF CmdFailed(code)
       THEN /\ taskError' = Err("cmd", <<cmds[cmdIdx]>>, code)
            /\ pcTask' = "cleanup"
            /\ UNCHANGED <<cmdIdx, remapIdx, bdAtCmdEnd>>
       ELSE IF cmdIdx < Len(cmds)
            THEN /\ cmdIdx' = cmdIdx + 1
                 /\ UNCHANGED <<pcTask, taskError, remapIdx, bdAtCmdEnd>>
            ELSE /\ pcTask' = "remap"
                 /\ cmdIdx' = cmdIdx + 1
                 /\ remapIdx' = 1
                 /\ bdAtCmdEnd' = bdEntries
                 /\ UNCHANGED taskError
    /\ UNCHANGED <<tgtFs, bdExists, bdEntries, buildPromise, buildError, downloaded>>
    /\ UNCHANGED cfgVars
    /\ UNCHANGED <<dl, dlOwner, joinErr, started, renameLog>>

----------------------------------------------------------------------------
(* Remapping *)

\* remap.dest || remap.src : undefined and "" are both falsy
RemapDest(r) == IF r.hasDest /\ r.dest # <<>> THEN r.dest ELSE r.src

\* the target after `if(!dstDirExists) mkdir(dstDir, {recursive: true})`
WithDstDir(fs, dstDir) == IF Exists(fs, dstDir) THEN fs ELSE MkdirP(fs, dstDir)

\* fs.promises.rename(src, dst) of a build-directory entry to a target path
RenameOk(fs, src, dst) ==
    /\ bdExists
    /\ src \in bdEntries
    /\ IsDir(fs, Dirname(dst))
    /\ ~IsDir(fs, dst)

Renamed(fs, src, dst) ==
    { n \in fs : n.p # dst } \cup { Node(dst, src[Len(src)]) }

\* one iteration of `for(const remap of this.remaps())`
RemapStep ==
    /\ UNCHANGED notBuilder
    /\ UNCHANGED <<srcs, exited, fulfilledDl>>
    /\ pcTask = "remap"
    /\ Len(fileRemaps) > 0
    /\ remapIdx <= Len(fileRemaps)
    /\ LET r == fileRemaps[remapIdx]
           dst == RemapDest(r)
           fs1 == WithDstDir(tgtFs, Dirname(dst))
           ok == RenameOk(fs1, r.src, dst)
       IN /\ renameLog' = Append(renameLog,
                 [src |-> r.src, dst |-> dst, idx |-> remapIdx,
                  parentOk |-> IsDir(fs1, Dirname(dst)), ok |-> ok])
          /\ IF ok
             THEN /\ tgtFs' = Renamed(fs1, r.src, dst)
                  /\ bdEntries' = bdEntries \ {r.src}
                  /\ remapIdx' = remapIdx + 1
                  /\ pcTask' = IF remapIdx = Len(fileRemaps) THEN "cleanup" ELSE "remap"
                  /\ UNCHANGED taskError
             ELSE /\ tgtFs' = fs1
                  /\ taskError' = Err("rename", r.src, remapIdx)
                  /\ pcTask' = "cleanup"
                  /\ UNCHANGED <<bdEntries, remapIdx>>
    /\ UNCHANGED <<bdExists, buildPromise, buildError, downloaded>>
    /\ UNCHANGED cfgVars
    /\ UNCHANGED <<dl, dlOwner, joinErr, cmdIdx, running, started, bdAtCmdEnd>>

\* fs.promises.rename(buildDir, this.dest()): a directory replaces an empty
\* directory; a directory that has entries makes it fail (ENOTEMPTY)
RenameDirOk(fs) == bdExists /\ IsDir(fs, <<>>) /\ Children(fs, <<>>) = {}

\* the empty remap list: the whole build directory is renamed to the target
RenameAll ==
    /\ UNCHANGED notBuilder
    /\ UNCHANGED <<srcs, exited, fulfilledDl>>
    /\ pcTask = "remap"
    /\ Len(fileRemaps) = 0
    /\ renameLog' = Append(renameLog,
           [src |-> <<>>, dst |-> <<>>, idx |-> 0,
            parentOk |-> Exists(tgtFs, <<>>), ok |-> RenameDirOk(tgtFs)])
    /\ IF RenameDirOk(tgtFs)
       THEN /\ tgtFs' = { Node(<<>>, "dir") } \cup { Node(e, e[Len(e)]) : e \in bdEntries }
            /\ bdExists' = FALSE
            /\ bdEntries' = {}
            /\ UNCHANGED taskError
       ELSE /\ taskError' = Err("rename", <<>>, 0)
            /\ UNCHANGED <<tgtFs, bdExists, bdEntries>>
    /\ pcTask' = "cleanup"
    /\ UNCHANGED <<buildPromise, buildError, downloaded>>
    /\ UNCHANGED cfgVars
    /\ UNCHANGED <<dl, dlOwner, joinErr, cmdIdx, running, started, remapIdx, bdAtCmdEnd>>

----------------------------------------------------------------------------
(* tempDirectoryTask's release *)

\* after the task settles the directory is removed, unless it was moved away
Cleanup ==
    /\ UNCHANGED notBuilder
    /\ UNCHANGED <<srcs, exited, fulfilledDl>>
    /\ pcTask = "cleanup"
    /\ bdExists' = FALSE
    /\ bdEntries' = {}
    /\ pcTask' = "settled"
    /\ UNCHANGED <<tgtFs, buildPromise, buildError, downloaded>>
    /\ UNCHANGED cfgVars
    /\ UNCHANGED <<taskError, dl, dlOwner, joinErr, cmdIdx, running, started,
                   remapIdx, renameLog, bdAtCmdEnd>>

----------------------------------------------------------------------------
(* download(url, dest) (download.ts) *)

\* the strings download() is called with
DlInputs == { "https://h/a.zip", "http://h/a.zip", "file:///t/a.zip",
              "/t/a.zip", "a.zip", "C:\\t\\a.zip" }

\* new URL(s).protocol, "" when new URL(s) throws
UrlProtocol(s) ==
    CASE s = "https://h/a.zip" -> "https:"
      [] s = "http://h/a.zip" -> "http:"
      [] s = "file:///t/a.zip" -> "file:"
      [] s = "C:\\t\\a.zip" -> "c:"
      [] OTHER -> ""

isURL(s) == UrlProtocol(s) # ""

isLocalPathNotURL(s) == ~isURL(s)
isLocalPath(s) == IF isURL(s) THEN UrlProtocol(s) = "file:" ELSE TRUE

\* the responses the server gives: status and whether the response has a body
Statuses == {200, 204, 404, 500}
RespOk(r) == r.status >= 200 /\ r.status <= 299

DlInit ==
    /\ BuilderNew({})
    /\ dUrl \in DlInputs
    /\ dPc = "idle"
    /\ dResp = NoResp
    /\ dWs = "none"
    /\ dDest = "absent"
    /\ dErr = NoErr
    /\ dHttp = 0
    /\ dCopies = 0
    /\ dUnlink = "none"
    /\ StripIdle
    /\ ZipIdle
    /\ DaeIdle

\* download(url, dest): copyLocalFile for a local path, else downloadFromURL,
\* which begins with fetch(url)
Download ==
    /\ dPc = "idle"
    /\ IF isLocalPath(dUrl)
       THEN /\ dPc' = "copy"
            /\ UNCHANGED dHttp
       ELSE /\ dPc' = "fetch"
            /\ dHttp' = dHttp + 1
    /\ UNCHANGED <<dUrl, dResp, dWs, dDest, dErr, dCopies>>
    /\ UNCHANGED dUnlink
    /\ UNCHANGED notDl

\* fs.promises.copyFile(src, dest) settles
CopyLocal(ok) ==
    /\ dPc = "copy"
    /\ dCopies' = dCopies + 1
    /\ dPc' = "done"
    /\ IF ok
       THEN /\ dDest' = "complete"
            /\ UNCHANGED dErr
       ELSE /\ dErr' = Err("copy", <<dUrl>>, 0)
            /\ UNCHANGED dDest
    /\ UNCHANGED <<dUrl, dResp, dWs, dHttp>>
    /\ UNCHANGED dUnlink
    /\ UNCHANGED notDl

\* fetch(url) rejects (no connection, or a url fetch cannot handle)
FetchReject ==
    /\ dPc = "fetch"
    /\ dPc' = "done"
    /\ dErr' = Err("fetch", <<dUrl>>, 0)
    /\ UNCHANGED <<dUrl, dResp, dWs, dDest, dHttp, dCopies>>
    /\ UNCHANGED dUnlink
    /\ UNCHANGED notDl

\* fetch(url) resolves with r: the write stream is created, then the status
\* and the body are checked, then the body is piped
FetchResolve(r) ==
    /\ dPc = "fetch"
    /\ dResp' = r
    /\ dWs' = "created"
    /\ IF ~RespOk(r)
       THEN /\ dErr' = Err("http", <<dUrl>>, r.status)
            /\ dPc' = "done"
       ELSE IF ~r.body
            THEN /\ dErr' = Err("emptybody", <<dUrl>>, 0)
                 /\ dPc' = "done"
            ELSE /\ dPc' = "pipe"
                 /\ UNCHANGED dErr
    /\ UNCHANGED <<dUrl, dDest, dHttp, dCopies>>
    /\ UNCHANGED dUnlink
    /\ UNCHANGED notDl

\* the stream made by fs.createWriteStream(dest) opens dest (flag "w"): the
\* file is created, or truncated
WsOpen ==
    /\ dWs = "created"
    /\ dWs' = "open"
    /\ dDest' = "empty"
    /\ UNCHANGED <<dUrl, dPc, dResp, dErr, dHttp, dCopies>>
    /\ UNCHANGED dUnlink
    /\ UNCHANGED notDl

\* pipeline(resp.body, writeStream) writes a chunk
PipeChunk ==
    /\ dPc = "pipe"
    /\ dWs = "open"
    /\ dDest' = "partial"
    /\ UNCHANGED <<dUrl, dPc, dResp, dWs, dErr, dHttp, dCopies>>
    /\ UNCHANGED dUnlink
    /\ UNCHANGED notDl

\* pipeline(...) fulfils
PipeEnd ==
    /\ dPc = "pipe"
    /\ dWs = "open"
    /\ dDest' = "complete"
    /\ dWs' = "closed"
    /\ dPc' = "done"
    /\ UNCHANGED <<dUrl, dResp, dErr, dHttp, dCopies>>
    /\ UNCHANGED dUnlink
    /\ UNCHANGED notDl

\* throw new Error(`Failed to download ${url}: ${err}`), whatever became of
\* the unlink
PipeErrorUnlessUnlinkFails(unlinkOk) ==
    IF unlinkOk THEN Err("download", <<dUrl>>, 0) ELSE Err("unlink", <<dUrl>>, 0)
PipeError(unlinkOk) == Err("download", <<dUrl>>, 0)

\* pipeline(...) rejects: fs.unlinkSync(dest) in a try/catch that swallows its
\* failure, then the download error is thrown. The stream is destroyed; when
\* it had not opened dest yet there is nothing to unlink, and the pending open
\* may still create the file (stillOpens).
PipeFail(unlinkOk, stillOpens) ==
    /\ dPc = "pipe"
    /\ IF dWs = "open"
       THEN /\ dWs' = "closed"
            /\ dDest' = IF unlinkOk THEN "absent" ELSE dDest
       ELSE /\ dWs' = IF stillOpens THEN "created" ELSE "closed"
            /\ UNCHANGED dDest
    /\ dUnlink' = IF dWs = "open" /\ unlinkOk THEN "ok" ELSE "failed"
    /\ dErr' = PipeError(dUnlink' = "ok")
    /\ dPc' = "done"
    /\ UNCHANGED <<dUrl, dResp, dHttp, dCopies>>
    /\ UNCHANGED notDl

DlNext ==
    \/ Download
    \/ \E ok \in BOOLEAN : CopyLocal(ok)
    \/ FetchReject
    \/ \E st \in Statuses, b \in BOOLEAN : FetchResolve([status |-> st, body |-> b])
    \/ WsOpen
    \/ PipeChunk
    \/ PipeEnd
    \/ \E u, o \in BOOLEAN : PipeFail(u, o)

DlSpec == DlInit /\ [][DlNext]_vars

Next ==
    \/ \E s \in SourceInputs : Src(s)
    \/ \E p \in DestPaths : Dest(p)
    \/ \E cs \in CmdLists : Commands(cs)
    \/ \E rs \in RemapLists : Remaps(rs)
    \/ Build
    \/ TempDirCreate
    \/ DownloadStart
    \/ \E i \in 1..MaxSources : DlExtract(i) \/ DlFail(i) \/ DlPush(i)
    \/ JoinResolve
    \/ JoinReject
    \/ CmdStart
    \/ \E code \in ExitCodes : CmdExit(code)
    \/ RemapStep
    \/ RenameAll
    \/ Cleanup

Spec == Init /\ [][Next]_vars

----------------------------------------------------------------------------
(* stripDirs(dir, level) (strip_dirs.ts) *)

MaxDepth == 3
MaxLevel == 3

PathNames == {"a", "b"}

\* the paths stripDirs is applied to: relative and absolute, up to MaxDepth
\* components
StripPaths ==
    { PathRec(abs, parts) : abs \in BOOLEAN, parts \in SeqsUpTo(PathNames, MaxDepth) }

\* path.dirname(dir).split(path.sep): the dirname of a single name is ".",
\* that of a path directly under the root is "/", which splits into two empty
\* strings; an absolute dirname splits with a leading empty string
dirnameSplit(dir) ==
    IF Len(dir.parts) <= 1
    THEN IF dir.abs THEN <<"", "">> ELSE <<".">>
    ELSE (IF dir.abs THEN <<"">> ELSE <<>>)
            \o SubSeq(dir.parts, 1, Len(dir.parts) - 1)

\* path.basename(dir)
basename(dir) ==
    IF dir.parts = <<>>
    THEN IF dir.abs THEN "" ELSE "."
    ELSE dir.parts[Len(dir.parts)]

IsSegment(s) == s # "" /\ s # "."

\* path.join(...segs): empty segments are ignored and "." is normalised away;
\* the result is rooted only when a segment begins with "/", and none does
pathJoin(segs) == PathRec(FALSE, SelectSeq(segs, IsSegment))

\* dirs.pop(), level times
popDirs(dirs, level) == SubSeq(dirs, 1, Len(dirs) - level)

stripDirs(dir, level) ==
    LET dirs == dirnameSplit(dir)
        base == basename(dir)
    IN  IF Len(dirs) < level
        THEN pathJoin(dirs \o <<base>>)
        ELSE pathJoin(popDirs(dirs, level) \o <<base>>)

StripInit ==
    /\ BuilderNew({})
    /\ DlIdle
    /\ sPath \in StripPaths
    /\ sLevel \in 0..MaxLevel
    /\ sOut = PathRec(FALSE, <<>>)
    /\ sPc = "call"
    /\ ZipIdle
    /\ DaeIdle

StripCall ==
    /\ sPc = "call"
    /\ sOut' = stripDirs(sPath, sLevel)
    /\ sPc' = "done"
    /\ UNCHANGED <<sPath, sLevel, builderVars, dVars, zVars, xVars>>

StripNext == StripCall

StripSpec == StripInit /\ [][StripNext]_vars

----------------------------------------------------------------------------
(* extractZip(filepath, dest, strip) and walkDir (unarchive.ts) *)

MaxStrip == 2

F(p) == Node(p, "file")
Dir(p) == Node(p, "dir")

\* the archives: a wrapper directory holding one file; the same beside a
\* file at the root; a wrapper holding a file and a non-empty directory; two
\* wrappers, one in the other, beside an empty directory
ZipArchives ==
    { { Dir(<<"w">>), F(<<"w", "f">>) },
      { Dir(<<"w">>), F(<<"w", "f">>), F(<<"g">>) },
      { Dir(<<"w">>), F(<<"w", "f">>), Dir(<<"w", "d">>), F(<<"w", "d", "h">>) },
      { Dir(<<"w">>), Dir(<<"w", "v">>), F(<<"w", "v", "f">>), Dir(<<"e">>) } }

\* dest: relative ("out"), absolute ("/t/b")
ZipDests == { PathRec(FALSE, <<"out">>), PathRec(TRUE, <<"t", "b">>) }

\* the working directory: "/" or "/home"
ZipCwds == { <<>>, <<"home">> }

\* the absolute location a path names
pathResolve(cwd, p) == IF p.abs THEN p.parts ELSE cwd \o p.parts

\* path.join(filepath, entry.name)
entryPathOf(filepath, name) == PathRec(filepath.abs, filepath.parts \o <<name>>)

\* fs.promises.readdir(filepath, { withFileTypes: true })
readdir(fs, cwd, filepath) == Children(fs, pathResolve(cwd, filepath))

\* a directory entry is descended into, not returned
DescendAlso(currDepth, maxDepth) == currDepth + 1 <= maxDepth
Descend(currDepth, maxDepth) == currDepth + 1 < maxDepth

RECURSIVE walkDir(_, _, _, _, _)
walkDir(fs, cwd, filepath, maxDepth, currDepth) ==
    IF currDepth > maxDepth
    THEN {}
    ELSE UNION {
           LET entryPath == entryPathOf(filepath, e.p[Len(e.p)])
           IN  IF e.c = "dir" /\ Descend(currDepth, maxDepth)
               THEN walkDir(fs, cwd, entryPath, maxDepth, currDepth + 1)
               ELSE {entryPath}
           : e \in readdir(fs, cwd, filepath) }

\* the directories a walkDir call lists
RECURSIVE walkListed(_, _, _, _, _)
walkListed(fs, cwd, filepath, maxDepth, currDepth) ==
    IF currDepth > maxDepth
    THEN {}
    ELSE {filepath} \cup UNION {
           IF e.c = "dir" /\ Descend(currDepth, maxDepth)
           THEN walkListed(fs, cwd, entryPathOf(filepath, e.p[Len(e.p)]),
                           maxDepth, currDepth + 1)
           ELSE {}
           : e \in readdir(fs, cwd, filepath) }

Under(fs, p) == { n \in fs : Len(n.p) > Len(p) /\ SubSeq(n.p, 1, Len(p)) = p }
Kind(fs, p) == (CHOOSE n \in fs : n.p = p).c

\* rename(from, to) of the operating system, on absolute locations: the
\* source exists, the parent of the target is a directory, the target is not
\* inside the source, and an existing target is a file replaced by a file or
\* an empty directory replaced by a directory
zRenameOk(fs, from, to) ==
    /\ Exists(fs, from)
    /\ to # <<>>
    /\ IsDir(fs, Dirname(to))
    /\ ~(Len(to) > Len(from) /\ SubSeq(to, 1, Len(from)) = from)
    /\ (Exists(fs, to) /\ to # from) =>
          /\ Kind(fs, to) = Kind(fs, from)
          /\ Under(fs, to) = {}

zRenamed(fs, from, to) ==
    IF from = to
    THEN fs
    ELSE LET moved == { n \in fs : n.p = from } \cup Under(fs, from)
             kept == { n \in fs : n \notin moved /\ n.p # to }
         IN  kept \cup { Node(to \o SubSeq(n.p, Len(from) + 1, Len(n.p)), n.c)
                          : n \in moved }

ZipInit ==
    /\ BuilderNew({})
    /\ DlIdle
    /\ StripIdle
    /\ zDest \in ZipDests
    /\ zCwd \in ZipCwds
    /\ zStrip \in -1..MaxStrip
    /\ zArch \in ZipArchives
    /\ zFs = { Dir(q) : q \in Prefixes(zCwd) }
    /\ zPc = "unzip"
    /\ zLeaves = {}
    /\ zListed = {}
    /\ zTodo = {}
    /\ zMoves = {}
    /\ zErr = NoErr
    /\ DaeIdle

zipFrame == <<builderVars, dVars, sVars, xVars, zDest, zCwd, zStrip, zArch>>

\* zip(filepath, { dir: path.resolve(dest) }): the entries land under dest;
\* without a strip argument its promise is the result
Unzip(ok) ==
    /\ zPc = "unzip"
    /\ IF ok
       THEN LET root == pathResolve(zCwd, zDest)
            IN  /\ zFs' = zFs \cup { Dir(q) : q \in Prefixes(root) }
                              \cup { Node(root \o e.p, e.c) : e \in zArch }
                /\ zPc' = IF zStrip = -1 THEN "done" ELSE "walk"
                /\ UNCHANGED zErr
       ELSE /\ zErr' = Err("zip", <<>>, 0)
            /\ zPc' = "done"
            /\ UNCHANGED zFs
    /\ UNCHANGED <<zLeaves, zListed, zTodo, zMoves, zipFrame>>

\* const leaves = await walkDir(dest, strip+1)
Walk ==
    /\ zPc = "walk"
    /\ zLeaves' = walkDir(zFs, zCwd, zDest, zStrip + 1, 0)
    /\ zListed' = walkListed(zFs, zCwd, zDest, zStrip + 1, 0)
    /\ zTodo' = zLeaves'
    /\ zPc' = IF zLeaves' = {} THEN "done" ELSE "strip"
    /\ UNCHANGED <<zFs, zMoves, zErr, zipFrame>>

\* one turn of the loop over the leaves, in the order readdir gave them:
\* rename(leaf, stripDirs(leaf, strip)); a failure is rethrown
StripLeaf(leaf) ==
    /\ zPc = "strip"
    /\ leaf \in zTodo
    /\ LET dst == stripDirs(leaf, zStrip)
           from == pathResolve(zCwd, leaf)
           to == pathResolve(zCwd, dst)
           ok == zRenameOk(zFs, from, to)
       IN  /\ zMoves' = zMoves \cup { [from |-> from, to |-> to, ok |-> ok] }
           /\ zTodo' = zTodo \ {leaf}
           /\ IF ok
              THEN /\ zFs' = zRenamed(zFs, from, to)
                   /\ zPc' = IF zTodo' = {} THEN "done" ELSE "strip"
                   /\ UNCHANGED zErr
              ELSE /\ zErr' = Err("strip", leaf.parts, zStrip)
                   /\ zPc' = "done"
                   /\ UNCHANGED zFs
    /\ UNCHANGED <<zLeaves, zListed, zipFrame>>

ZipNext ==
    \/ \E ok \in BOOLEAN : Unzip(ok)
    \/ Walk
    \/ \E leaf \in zTodo : StripLeaf(leaf)

ZipSpec == ZipInit /\ [][ZipNext]_vars

----------------------------------------------------------------------------
(* downloadAndExtract(url, dest, strip) (download.ts) *)

\* what getType(temp) resolves with; "" stands for no type found
Mimes == { "application/gzip", "application/x-bzip2", "application/zip",
           "application/x-xz", "" }

\* the cases of the switch that choose a format
FormatOf(mime) ==
    CASE mime \in {"application/gzip", "application/x-bzip2"} -> "tar"
      [] mime = "application/zip" -> "zip"
      [] OTHER -> "none"

\* tempFileTask has allocated the temporary file and called the task, which
\* is about to call download(url, temp)
DaeInit ==
    /\ BuilderNew({})
    /\ dUrl \in DlInputs
    /\ dPc = "idle"
    /\ dResp = NoResp
    /\ dWs = "none"
    /\ dDest \in {"absent", "empty"}
    /\ dErr = NoErr
    /\ dHttp = 0
    /\ dCopies = 0
    /\ dUnlink = "none"
    /\ StripIdle
    /\ ZipIdle
    /\ xPc = "download"
    /\ xMime = ""
    /\ xErr = NoErr
    /\ xExtracts = 0

daeFrame == <<builderVars, sVars, zVars>>

\* await download(url, temp) settles: its rejection leaves the task
Downloaded ==
    /\ xPc = "download"
    /\ dPc = "done"
    /\ IF dErr # NoErr
       THEN /\ xErr' = dErr
            /\ xPc' = "cleanup"
       ELSE /\ xPc' = "detect"
            /\ UNCHANGED xErr
    /\ UNCHANGED <<xMime, xExtracts, dVars, daeFrame>>

\* await getType(temp) rejects
GetTypeReject ==
    /\ xPc = "detect"
    /\ xErr' = Err("gettype", <<dUrl>>, 0)
    /\ xPc' = "cleanup"
    /\ UNCHANGED <<xMime, xExtracts, dVars, daeFrame>>

\* await getType(temp) resolves with mime; the switch picks the format or
\* throws, and extract(temp, dest, format, strip) is called
GetType(mime) ==
    /\ xPc = "detect"
    /\ xMime' = mime
    /\ IF FormatOf(mime) = "none"
       THEN /\ xErr' = Err("unsupported", <<dUrl, mime>>, 0)
            /\ xPc' = "cleanup"
            /\ UNCHANGED xExtracts
       ELSE /\ xExtracts' = xExtracts + 1
            /\ xPc' = "extract"
            /\ UNCHANGED xErr
    /\ UNCHANGED <<dVars, daeFrame>>

\* await extract(...) settles
Extracted(ok) ==
    /\ xPc = "extract"
    /\ xErr' = IF ok THEN NoErr ELSE Err("extract", <<dUrl>>, 0)
    /\ xPc' = "cleanup"
    /\ UNCHANGED <<xMime, xExtracts, dVars, daeFrame>>

\* tempFileTask removes the temporary file once the task has settled, and
\* downloadAndExtract settles as the task did
TempFileRemove ==
    /\ xPc = "cleanup"
    /\ dDest' = "absent"
    /\ xPc' = "settled"
    /\ UNCHANGED <<dUrl, dPc, dResp, dWs, dErr, dHttp, dCopies, dUnlink>>
    /\ UNCHANGED <<xMime, xErr, xExtracts, daeFrame>>

DaeNext ==
    \/ DlNext
    \/ Downloaded
    \/ GetTypeReject
    \/ \E mime \in Mimes : GetType(mime)
    \/ \E ok \in BOOLEAN : Extracted(ok)
    \/ TempFileRemove

DaeSpec == DaeInit /\ [][DaeNext]_vars

----------------------------------------------------------------------------
(* Claims *)

Matching == { i \in 1..Len(sources) :
                sources[i].os = HostOS /\ sources[i].arch = HostArch }

BuildCompleted == buildPromise \in {"fulfilled", "rejected"}

\* C1: when a phase of build() fails (a download/extract, a command, a
\* remap/move), the promise build() returned to its caller rejects with that
\* error; it never fulfils when a phase inside it failed.
C1_BuildFailsWhenPhaseFails ==
    taskError # NoErr =>
        /\ buildPromise # "fulfilled"
        /\ pcTask = "settled" => (buildPromise = "rejected" /\ buildError = taskError)

\* C2: once build() has completed towards its caller, the temporary build
\* directory no longer exists at its temporary path.
C2_TempDirGoneWhenBuildCompleted ==
    BuildCompleted => ~bdExists

\* C3: after a command has exited with a non-zero code, no command registered
\* after it is ever started and no rename into the target is ever performed.
C3_FailedCommandHaltsPipeline ==
    \A k \in DOMAIN exited :
        exited[k] # 0 =>
            /\ k \in DOMAIN started
            /\ \A j \in DOMAIN started : started[j] <= started[k]
            /\ renameLog = <<>>

C3_Witness ==
    /\ pcTask = "settled"
    /\ Len(cmds) = 2
    /\ fileRemaps # <<>>
    /\ exited = <<1>>

\* C4: commands are started in registration order, at most one command is
\* running at any time, and a command is started only when the
\* download/extract of every matching source has finished.
C4_CommandsInOrderAfterDownloads ==
    /\ \A k \in DOMAIN started : started[k] = k
    /\ Cardinality(running) <= 1
    /\ started # <<>> => \A i \in Matching : dl[i] = "pushed"

C4_Witness ==
    /\ Cardinality(Matching) = 2
    /\ started = <<1, 2>>
    /\ running = {2}

\* C5: when no registered source is for the host, build() rejects with the
\* no-binary error naming the host pair, and in that build no download is
\* started, no command is run and nothing is moved into the target.
C5_NoBinaryRejectsBuild ==
    (Matching = {} /\ pcTask = "settled") =>
        /\ buildPromise = "rejected"
        /\ buildError = Err("nobinary", osArchPair, 0)
        /\ \A i \in DOMAIN dl : dl[i] = "idle"
        /\ started = <<>>
        /\ renameLog = <<>>

\* the content a build-directory entry carries, and the target's entries
ContentOf(e) == e[Len(e)]
TargetEntries == { n \in tgtFs : n.p # <<>> }

\* C6: with an empty remap list, after a successful build() the target holds
\* exactly the entries the build directory held when the command phase ended,
\* the build directory is gone, and this was done by one rename of the build
\* directory onto the existing target path.
C6_EmptyRemapMovesEverything ==
    (buildPromise = "fulfilled" /\ fileRemaps = <<>>) =>
        /\ ~bdExists
        /\ Len(renameLog) = 1
        /\ renameLog[1].src = <<>> /\ renameLog[1].parentOk /\ renameLog[1].ok
        /\ TargetEntries = { Node(e, ContentOf(e)) : e \in bdAtCmdEnd }

\* C7: with a non-empty remap list, after a successful build() every remap
\* entry's source is at target/dest when dest is given and at target/src when
\* it is absent, and the destination's parent existed when the entry was renamed.
C7_RemapsPlaceEverySource ==
    (buildPromise = "fulfilled" /\ fileRemaps # <<>>) =>
        /\ \A k \in DOMAIN fileRemaps :
              Node(IF fileRemaps[k].hasDest THEN fileRemaps[k].dest
                   ELSE fileRemaps[k].src,
                   ContentOf(fileRemaps[k].src)) \in tgtFs
        /\ Len(renameLog) = Len(fileRemaps)
        /\ \A k \in DOMAIN renameLog : renameLog[k].parentOk

IsPrefix(s, u) == Len(s) <= Len(u) /\ SubSeq(u, 1, Len(s)) = s

\* once download() has selected: srcs is in registration order and holds
\* exactly the sources registered for the host
C8_Selected ==
    pcTask \notin {"none", "mktemp", "download"} =>
        /\ \A k \in 1..(Len(srcs) - 1) : srcs[k] < srcs[k + 1]
        /\ Range(srcs) = Matching
        /\ \A i \in DOMAIN dl : (dl[i] # "idle") => i \in Matching

\* C8: the sources selected for download are exactly the registered sources
\* whose os and arch both equal the host's, in registration order (all of
\* those that share a pair), and selecting leaves the stored entries as they were.
C8_SelectionExact ==
    /\ []C8_Selected
    /\ [][pcTask = "download" => sources' = sources]_vars

C8_Witness ==
    /\ pcTask = "join"
    /\ srcs = <<1, 2>>
    /\ sources[1].url # sources[2].url

\* every element of downloaded was pushed by one source, whose
\* downloadAndExtract fulfilled
C9_OnlySucceeded ==
    /\ Len(dlOwner) = Len(downloaded)
    /\ \A k \in DOMAIN downloaded :
          /\ dlOwner[k] \in fulfilledDl
          /\ downloaded[k] = sources[dlOwner[k]].url
          /\ dl[dlOwner[k]] \notin {"idle", "running", "failed"}
    /\ \A j, k \in DOMAIN dlOwner : dlOwner[j] = dlOwner[k] => j = k

\* C9: every element of downloaded is the url of a source whose
\* downloadAndExtract fulfilled; a source that failed or is still in progress
\* is never in the list; the list only grows at its end.
C9_DownloadedAppendOnly ==
    /\ []C9_OnlySucceeded
    /\ [][IsPrefix(downloaded, downloaded')]_vars

C9_Witness ==
    /\ Len(sources) = 2
    /\ dl = <<"failed", "pushed">>
    /\ downloaded = <<sources[2].url>>

\* C10: when the GET for a remote source returns a non-success status,
\* download(url, dest) rejects with an error that reports the status code, and
\* no file, not even an empty one, is at dest after the failure.
C10_HttpErrorLeavesNoFile ==
    (dPc = "done" /\ dHttp > 0 /\ dResp # NoResp /\ ~RespOk(dResp)) =>
        /\ dErr = Err("http", <<dUrl>>, dResp.status)
        /\ dDest = "absent"


\* C11: for every path p with k directory components, stripDirs(p, level)
\* with level <= k is p without level of its directory components (those next
\* to the leaf, which is how the directory prefix is popped; the leaf name is
\* kept), with level > k it is p, and stripDirs(p, 0) is p, for relative and
\* absolute p alike
C11_StripsLevelDirs ==
    (sPc = "done" /\ sPath.parts # <<>>) =>
        LET n == Len(sPath.parts)
            k == n - 1
        IN  /\ sLevel <= k =>
                sOut = PathRec(sPath.abs,
                               SubSeq(sPath.parts, 1, k - sLevel) \o <<sPath.parts[n]>>)
            /\ sLevel > k => sOut = sPath
            /\ sLevel = 0 => sOut = sPath


\* the location of dest, and how deep below it a location lies
zRoot == pathResolve(zCwd, zDest)
InsideDest(q) == Len(q) > Len(zRoot) /\ SubSeq(q, 1, Len(zRoot)) = zRoot

\* C12: once a zip was extracted with stripLevel n into destDir, every
\* archive entry at depth n+1 lies directly under destDir under its own leaf
\* name and extractZip did not fail, for a relative and for an absolute
\* destDir
C12_DepthEntriesUnderDest ==
    (zPc = "done" /\ zStrip >= 0 /\ zErr.kind # "zip") =>
        /\ zErr = NoErr
        /\ \A e \in zArch :
              Len(e.p) = zStrip + 1 =>
                  Node(zRoot \o <<e.p[Len(e.p)]>>, e.c) \in zFs


\* how deep below dest a path of the walk lies, and the path of the walk that
\* names a location below dest
DepthOf(q) == Len(q.parts) - Len(zDest.parts)
WalkPathOf(loc) ==
    PathRec(zDest.abs, zDest.parts \o SubSeq(loc, Len(zRoot) + 1, Len(loc)))
DirsBelowDest == { n \in zFs : n.c = "dir" /\ InsideDest(n.p) }
Walked == zPc \in {"strip", "done"} /\ zListed # {} /\ zMoves = {}

\* C18: the walk for stripLevel n lists no path deeper than n+1 below
\* destDir; a directory at depth n+1 is returned as a leaf and its contents
\* are not listed; a shallower directory is listed and not returned
C18_WalkBounded ==
    Walked =>
        /\ \A l \in zLeaves : DepthOf(l) >= 1 /\ DepthOf(l) <= zStrip + 1
        /\ \A d \in zListed : DepthOf(d) <= zStrip
        /\ \A n \in DirsBelowDest :
              LET q == WalkPathOf(n.p)
              IN  /\ DepthOf(q) = zStrip + 1 => q \in zLeaves /\ q \notin zListed
                  /\ DepthOf(q) <= zStrip => q \in zListed /\ q \notin zLeaves

\* a walk that met a directory with contents at the cutoff depth, below a
\* directory it descended into
C18_Witness ==
    /\ Walked
    /\ \E n \in DirsBelowDest :
          DepthOf(WalkPathOf(n.p)) = zStrip + 1 /\ Under(zFs, n.p) # {}
    /\ \E n \in DirsBelowDest : DepthOf(WalkPathOf(n.p)) <= zStrip

\* C20: every rename of the zip stripping that succeeded moved its entry to
\* a location inside destDir
C20_RenamesStayInsideDest ==
    \A m \in zMoves : m.ok => InsideDest(m.to)


\* C13: download makes a local copy and issues no HTTP request exactly when
\* the source is not a valid URL or is a URL of scheme file:; otherwise it
\* issues an HTTP GET and makes no local copy
C13_LocalExactlyWhenNotRemote ==
    dPc # "idle" =>
        IF UrlProtocol(dUrl) \in {"", "file:"}
        THEN /\ dHttp = 0
             /\ dPc \in {"copy", "done"}
             /\ dPc = "done" => dCopies = 1
        ELSE /\ dHttp = 1
             /\ dCopies = 0
             /\ dPc # "copy"

\* a file: URL was copied
C13_Witness ==
    /\ dUrl = "file:///t/a.zip"
    /\ dPc = "done"
    /\ dCopies = 1
    /\ dHttp = 0


\* the body was being streamed to dest and download() ended without the
\* stream completing
StreamFailed ==
    /\ dPc = "done"
    /\ dResp # NoResp
    /\ RespOk(dResp)
    /\ dResp.body
    /\ dDest # "complete"

\* C17: when streaming the body to destFile fails, the deletion of the
\* partial destFile was attempted and download() rejects with the download
\* error, whether the deletion succeeded or failed
C17_UnlinkAttemptedErrorKept ==
    /\ StreamFailed => dUnlink # "none" /\ dErr = Err("download", <<dUrl>>, 0)
    /\ dUnlink # "none" => StreamFailed

\* streaming failed partway and the partial file could not be deleted
C17_Witness ==
    /\ StreamFailed
    /\ dUnlink = "failed"
    /\ dDest = "partial"
    /\ dErr.kind = "download"


\* C14: dest(path) with a path that exists and is not a directory throws and
\* leaves the configured target as it was; with a path that does not exist
\* or is a directory it sets the target to that path; so the configured
\* target is never a path that was an existing non-directory when it was set
C14_DestRejectsNonDirectory ==
    /\ [](\A p \in DestPaths :
            (PathExists(p) /\ ~PathIsDirectory(p)) => destination # p)
    /\ [][threw' => destination' = destination]_vars
    /\ [][\A p \in DestPaths :
            Dest(p) =>
                IF PathExists(p) /\ ~PathIsDirectory(p)
                THEN threw' /\ destination' = destination
                ELSE ~threw' /\ destination' = p]_vars

\* dest("afile") threw after dest("out") had set the target
C14_Witness ==
    /\ Configuring
    /\ threw
    /\ destination = "out"


Supported == {"application/gzip", "application/x-bzip2", "application/zip"}

\* C15: downloadAndExtract detects the type only after the fetch succeeded
\* and extracts only after the detection; a failure of the fetch, of the
\* detection or of the extraction is the failure of the call; extract is
\* never called for a type other than gzip, bzip2 and zip; and once the call
\* has settled the temporary file is gone, on every path
C15_StepsPropagateTempRemoved ==
    /\ (xPc \in {"detect", "extract"} \/ xMime # "" \/ xExtracts > 0) =>
          dPc = "done" /\ dErr = NoErr
    /\ xExtracts > 0 => xMime \in Supported /\ xExtracts = 1
    /\ xMime \notin Supported => xExtracts = 0
    /\ (xPc = "settled" /\ dErr # NoErr) => xErr = dErr
    /\ (xPc = "settled" /\ xMime \notin Supported) => xErr # NoErr
    /\ xPc = "settled" => dDest = "absent"


\* the remap loop went through its entries in registration order
RemapsInOrder ==
    Len(fileRemaps) > 0 =>
        \A k \in 1..Len(renameLog) :
            renameLog[k].idx = k /\ renameLog[k].src = fileRemaps[k].src

\* the entries before the failed one are where they were moved to, and no
\* entry after it was attempted
NoRollbackNoLaterAttempt ==
    \A i \in 1..Len(renameLog) :
        (Len(fileRemaps) > 0 /\ ~renameLog[i].ok) =>
            /\ Len(renameLog) = i
            /\ \A j \in 1..(i - 1) :
                  /\ renameLog[j].ok
                  /\ Node(renameLog[j].dst,
                          renameLog[j].src[Len(renameLog[j].src)]) \in tgtFs

\* C16: remap entries are processed in registration order; when the move
\* of entry i fails the build fails, the entries before i stay moved at
\* their destinations and no entry after i is attempted
C16_RemapFailureStopsBuild ==
    /\ RemapsInOrder
    /\ NoRollbackNoLaterAttempt
    /\ \A i \in 1..Len(renameLog) :
          (Len(fileRemaps) > 0 /\ ~renameLog[i].ok) => buildPromise = "rejected"

\* C19: once the temporary build directory has been released, no
\* downloadAndExtract of that build is still running
C19_NoDownloadRunningAtRelease ==
    pcTask = "settled" => \A i \in DOMAIN dl : dl[i] # "running"

====
